---- MODULE Spec2Model ----
(***************************************************************************)
(* The drone delivery optimizer of src/algorithm.js (class                 *)
(* DroneDeliveryOptimizer) as a state machine.                             *)
(*                                                                         *)
(* Geometry.  Every location lies on one meridian (lng = 0), as in the     *)
(* spec's Scenario A.  For two points of equal longitude the haversine     *)
(* formula of calculateDistance reduces to R * |lat2 - lat1| * pi / 180,   *)
(* so with latitudes counted in whole steps the distance is |lat2 - lat1|  *)
(* in units of one step (R * pi / 180 km per degree); battery capacities   *)
(* are counted in the same unit.                                           *)
(*                                                                         *)
(* Indices.  Route entries are the code's 0-based positions in this.zones; *)
(* TLA+ sequences are 1-based, so position i is read as zs[i + 1].         *)
(***************************************************************************)
EXTENDS Integers, Sequences, FiniteSets, TLC

VARIABLES zones, drones, distanceMatrix, baseLocation, last, before, runs,
          baseMarker, zoneMarkers, animations, animationActive, delayed

vars == <<zones, drones, distanceMatrix, baseLocation, last, before, runs,
          baseMarker, zoneMarkers, animations, animationActive, delayed>>

\* the state of the page (src/unnamed/part_001); see the section on the page
uiVars == <<baseMarker, zoneMarkers, animations, animationActive, delayed>>

(***************************************************************************)
(* Bounds of the model.                                                    *)
(***************************************************************************)
MaxZones == 2
MaxDrones == 2
MaxRuns == 2
MaxLat == 2

(***************************************************************************)
(* JavaScript values that are not numbers or objects of the model.         *)
(***************************************************************************)
Null == [null |-> TRUE]
Undefined == [undefined |-> TRUE]
NoResult == [none |-> TRUE]

IsUndefined(v) == "undefined" \in DOMAIN v

Abs(x) == IF x < 0 THEN -x ELSE x

(***************************************************************************)
(* class Zone, class Drone: the objects the caller constructs.             *)
(***************************************************************************)
Zone(id, priority, demand, lat, lng) ==
    [id |-> id, priority |-> priority, demand |-> demand,
     lat |-> lat, lng |-> lng, served |-> FALSE]

Drone(id, batteryCapacity, payloadCapacity) ==
    [id |-> id, batteryCapacity |-> batteryCapacity,
     payloadCapacity |-> payloadCapacity,
     route |-> <<>>, totalDistance |-> 0, totalDelivered |-> 0]

(***************************************************************************)
(* The inputs the callers draw from.  The documented ones: a priority tier *)
(* (Critical = 1, Moderate = 2, Low = 3), a positive demand, a positive    *)
(* battery range and payload.  The unchecked ones add the value 0 for each *)
(* of them, which no method refuses.                                       *)
(***************************************************************************)
Priorities == {1, 2, 3}
Demands == {1, 2}
ZoneLats == 1..MaxLat
BaseLats == {0, MaxLat + 1}
Batteries == {2, 4}
Payloads == {1, 3}

ZoneArgs == [priority : Priorities, demand : Demands, lat : ZoneLats]
DroneArgs == [batteryCapacity : Batteries, payloadCapacity : Payloads]

UncheckedZoneArgs == [priority : {0, 1}, demand : {0, 1}, lat : {1}]
UncheckedDroneArgs == [batteryCapacity : {0, 2}, payloadCapacity : {0, 1}]

(***************************************************************************)
(* Array helpers.                                                          *)
(***************************************************************************)
RECURSIVE SumSeq(_)
SumSeq(s) == IF s = <<>> THEN 0 ELSE Head(s) + SumSeq(Tail(s))

(***************************************************************************)
(* calculateDistance, for two points of one meridian (lng1 = lng2, which   *)
(* every input of the model satisfies): dLng = 0, a = sin^2(dLat / 2),     *)
(* c = |dLat|, so the result is |lat2 - lat1| in latitude steps.           *)
(***************************************************************************)
calculateDistance(lat1, lng1, lat2, lng2) == Abs(lat2 - lat1)

(***************************************************************************)
(* buildDistanceMatrix: pairwise distances of zs in its current order.     *)
(***************************************************************************)
buildDistanceMatrix(zs) ==
    [i \in 1..Len(zs) |->
        [j \in 1..Len(zs) |->
            IF i # j
            THEN calculateDistance(zs[i].lat, zs[i].lng, zs[j].lat, zs[j].lng)
            ELSE 0]]

(***************************************************************************)
(* sortZonesByPriority: zones[0] stays, the rest is sorted by the          *)
(* comparator (priority ascending, then demand descending).                *)
(* Array.prototype.sort is stable, so the sort is an insertion of each     *)
(* element behind every element that does not compare greater.             *)
(***************************************************************************)
compareZones(a, b) ==
    IF a.priority # b.priority THEN a.priority - b.priority
    ELSE b.demand - a.demand

RECURSIVE InsertSorted(_, _)
InsertSorted(sorted, z) ==
    IF sorted = <<>> THEN <<z>>
    ELSE IF compareZones(Head(sorted), z) > 0 THEN <<z>> \o sorted
         ELSE <<Head(sorted)>> \o InsertSorted(Tail(sorted), z)

RECURSIVE StableSort(_)
StableSort(s) ==
    IF s = <<>> THEN <<>>
    ELSE InsertSorted(StableSort(SubSeq(s, 1, Len(s) - 1)), s[Len(s)])

sortZonesByPriority(zs) ==
    IF zs = <<>> THEN <<Undefined>>
    ELSE <<zs[1]>> \o StableSort(Tail(zs))

(***************************************************************************)
(* Reads of the matrix and the zones at the code's 0-based positions; a    *)
(* position past the end of the zones reads undefined.                     *)
(***************************************************************************)
Dist(D, i, j) == D[i + 1][j + 1]

ZoneAt(zs, i) == IF i + 1 \in DOMAIN zs THEN zs[i + 1] ELSE Undefined

(***************************************************************************)
(* effectiveDist = dist / zone.priority, kept as the fraction d / p.       *)
(* A priority of 0 gives Infinity (d > 0) or NaN (d = 0); no comparison    *)
(* `x < y` is true when x is Infinity or NaN.  Priorities are never        *)
(* negative in the model.                                                  *)
(***************************************************************************)
Infinity == [d |-> 1, p |-> 0]

effectiveDist(dist, priority) == [d |-> dist, p |-> priority]

\* A comparison that lets a later candidate win a tie; the selection rule
\* must tell it from EffLess.
EffLessOrEqual(a, b) ==
    IF a.p = 0 THEN FALSE
    ELSE IF b.p = 0 THEN TRUE
    ELSE a.d * b.p <= b.d * a.p

EffLess(a, b) ==
    IF a.p = 0 THEN FALSE
    ELSE IF b.p = 0 THEN TRUE
    ELSE a.d * b.p < b.d * a.p

(***************************************************************************)
(* nearestNeighborTSP.  currentLoad is the demand of the route's non-base  *)
(* entries; ScanAvailable is the for loop over availableZones for one      *)
(* step (it yields `nearest`, -1 when nothing is feasible); NearestLoop is *)
(* the while (true) loop.                                                  *)
(***************************************************************************)
baseIdx == 0

RECURSIVE currentLoad(_, _)
currentLoad(route, zs) ==
    IF route = <<>> THEN 0
    ELSE (IF Head(route) # baseIdx THEN ZoneAt(zs, Head(route)).demand ELSE 0)
         + currentLoad(Tail(route), zs)

InRoute(route, idx) == \E p \in 1..Len(route) : route[p] = idx

RECURSIVE ScanAvailable(_, _, _, _, _, _, _, _, _)
ScanAvailable(availableZones, k, route, current, currentDistance, nearest, minEffectiveDistance, drone, env) ==
    IF k > Len(availableZones) THEN nearest
    ELSE
      LET zoneIdx == availableZones[k]
          dist == Dist(env.D, current, zoneIdx)
          zone == ZoneAt(env.zs, zoneIdx)
          eff == effectiveDist(dist, zone.priority)
          returnDist == Dist(env.D, zoneIdx, baseIdx)
          totalDist == currentDistance + dist + returnDist
          take ==
              /\ ~InRoute(route, zoneIdx)
              /\ totalDist <= drone.batteryCapacity
              /\ EffLess(eff, minEffectiveDistance)
              /\ currentLoad(route, env.zs) + zone.demand <= drone.payloadCapacity
      IN ScanAvailable(availableZones, k + 1, route, current, currentDistance,
                       IF take THEN zoneIdx ELSE nearest,
                       IF take THEN eff ELSE minEffectiveDistance,
                       drone, env)

\* A construction that gives up after its first choice; the completeness
\* property must tell it from NearestLoop.
NearestLoopOnce(availableZones, route, current, currentDistance, drone, env) ==
    LET nearest == ScanAvailable(availableZones, 1, route, current,
                                 currentDistance, -1, Infinity, drone, env)
    IN IF nearest = -1 THEN route ELSE Append(route, nearest)

RECURSIVE NearestLoop(_, _, _, _, _, _)
NearestLoop(availableZones, route, current, currentDistance, drone, env) ==
    LET nearest == ScanAvailable(availableZones, 1, route, current,
                                 currentDistance, -1, Infinity, drone, env)
    IN IF nearest = -1 THEN route
       ELSE NearestLoop(availableZones, Append(route, nearest), nearest,
                        currentDistance + Dist(env.D, current, nearest),
                        drone, env)

nearestNeighborTSP(availableZones, drone, env) ==
    NearestLoop(availableZones, <<baseIdx>>, baseIdx, 0, drone, env)

(***************************************************************************)
(* calculateRouteDistance: base -> route[0] -> ... -> route[last] -> base. *)
(***************************************************************************)
RECURSIVE LegSum(_, _, _)
LegSum(route, i, D) ==
    IF i >= Len(route) THEN 0
    ELSE Dist(D, route[i], route[i + 1]) + LegSum(route, i + 1, D)

calculateRouteDistance(route, D) ==
    IF Len(route) = 0 THEN 0
    ELSE Dist(D, baseIdx, route[1]) + LegSum(route, 1, D)
         + Dist(D, route[Len(route)], baseIdx)

(***************************************************************************)
(* reverseSegment: swaps route[start] and route[end] and moves inwards.    *)
(* start and end are 0-based positions in the route.                       *)
(***************************************************************************)
\* A reversal that copies the entry at `end` over the one at `start` and
\* loses the latter; the reordering property must tell it from
\* reverseSegment.
RECURSIVE reverseSegmentCopy(_, _, _)
reverseSegmentCopy(route, start, end) ==
    IF start < end
    THEN reverseSegmentCopy([route EXCEPT ![start + 1] = route[end + 1]],
                            start + 1, end - 1)
    ELSE route

RECURSIVE reverseSegment(_, _, _)
reverseSegment(route, start, end) ==
    IF start < end
    THEN reverseSegment([route EXCEPT ![start + 1] = route[end + 1],
                                      ![end + 1] = route[start + 1]],
                        start + 1, end - 1)
    ELSE route

(***************************************************************************)
(* twoOptOptimize.  TwoOptAccepts is the test of one pair (i, j): the two   *)
(* replaced legs get shorter and the reversed route is within maxDistance; *)
(* TwoOptScan is one pass of the two nested for loops (i, j are 0-based    *)
(* positions; the route may be replaced in mid-scan); TwoOptLoop is the    *)
(* while loop with its cap of maxIterations passes.                        *)
(***************************************************************************)
maxIterations == 5

\* A test that only looks at the range and not at the two legs; the
\* monotonicity property must tell it from TwoOptAccepts.
TwoOptAcceptsInRange(route, i, j, maxDistance, D) ==
    calculateRouteDistance(reverseSegment(route, i, j), D) <= maxDistance

TwoOptAccepts(route, i, j, maxDistance, D) ==
    LET oldDist == Dist(D, route[i], route[i + 1])
                   + Dist(D, route[j + 1], route[j + 2])
        newDist == Dist(D, route[i], route[j + 1])
                   + Dist(D, route[i + 1], route[j + 2])
        testRoute == reverseSegment(route, i, j)
    IN /\ newDist < oldDist
       /\ calculateRouteDistance(testRoute, D) <= maxDistance

RECURSIVE TwoOptScan(_, _, _, _, _, _)
TwoOptScan(route, i, j, improved, maxDistance, D) ==
    IF ~(i < Len(route) - 2) THEN [route |-> route, improved |-> improved]
    ELSE IF ~(j < Len(route) - 1)
         THEN TwoOptScan(route, i + 1, i + 2, improved, maxDistance, D)
    ELSE
      LET accept == TwoOptAccepts(route, i, j, maxDistance, D)
      IN TwoOptScan(IF accept THEN reverseSegment(route, i, j) ELSE route,
                    i, j + 1, improved \/ accept, maxDistance, D)

RECURSIVE TwoOptLoop(_, _, _, _)
TwoOptLoop(route, iterations, maxDistance, D) ==
    IF ~(iterations < maxIterations) THEN route
    ELSE LET pass == TwoOptScan(route, 1, 2, FALSE, maxDistance, D)
         IN IF pass.improved
            THEN TwoOptLoop(pass.route, iterations + 1, maxDistance, D)
            ELSE pass.route

twoOptOptimize(route, maxDistance, D) ==
    IF Len(route) < 4 THEN route
    ELSE TwoOptLoop(route, 0, maxDistance, D)

(***************************************************************************)
(* Number.prototype.toFixed(digits) of the fraction num / den (num >= 0,   *)
(* den >= 0): the value scaled by 10^digits and rounded, or the texts      *)
(* "NaN" (0 / 0) and "Infinity" (x / 0).                                   *)
(***************************************************************************)
Pow10(digits) == IF digits = 1 THEN 10 ELSE 100

toFixed(num, den, digits) ==
    IF den = 0
    THEN [text |-> IF num = 0 THEN "NaN" ELSE "Infinity", scaled |-> 0]
    ELSE [text |-> "number",
          scaled |-> (2 * num * Pow10(digits) + den) \div (2 * den)]

(***************************************************************************)
(* The sum of drone.totalDistance / drone.batteryCapacity * 100 over the   *)
(* fleet, as a fraction; a denominator of 0 carries Infinity or NaN on.    *)
(***************************************************************************)
RECURSIVE UsageSum(_)
UsageSum(ds) ==
    IF ds = <<>> THEN [num |-> 0, den |-> 1]
    ELSE LET rest == UsageSum(SubSeq(ds, 1, Len(ds) - 1))
             d == ds[Len(ds)]
             n == d.totalDistance * 100
             b == d.batteryCapacity
         IN IF rest.den = 0 /\ rest.num = 0 THEN rest
            ELSE IF b = 0 /\ n = 0 THEN [num |-> 0, den |-> 0]
            ELSE IF rest.den = 0 \/ b = 0 THEN [num |-> 1, den |-> 0]
            ELSE [num |-> rest.num * b + n * rest.den, den |-> rest.den * b]

\* this.zones.filter(...).length for the filters of getResults
Served(zs) == { i \in 1..Len(zs) : zs[i].served }

WithPriority(zs, priority) == { i \in 1..Len(zs) : zs[i].priority = priority }

NotIdZero(zs) == { i \in 1..Len(zs) : zs[i].id # 0 }

(***************************************************************************)
(* getResults (executionTime, a wall-clock reading, is left out).          *)
(***************************************************************************)
getResults(zs, ds) ==
    LET usage == UsageSum(ds)
    IN
    [drones |->
        [k \in 1..Len(ds) |->
            [id |-> ds[k].id,
             route |-> [p \in 1..Len(ds[k].route) |-> ZoneAt(zs, ds[k].route[p])],
             totalDistance |-> ds[k].totalDistance,
             totalDelivered |-> ds[k].totalDelivered,
             batteryUsage |->
                 toFixed(ds[k].totalDistance * 100, ds[k].batteryCapacity, 1),
             routeIndices |-> ds[k].route]],
     summary |->
        [totalDistance |->
             toFixed(SumSeq([k \in 1..Len(ds) |-> ds[k].totalDistance]), 1, 2),
         zonesServed |-> Cardinality(Served(zs) \cap NotIdZero(zs)),
         totalZones |-> Len(zs) - 1,
         criticalServed |-> Cardinality(Served(zs) \cap WithPriority(zs, 1)),
         moderateServed |-> Cardinality(Served(zs) \cap WithPriority(zs, 2)),
         lowServed |-> Cardinality(Served(zs) \cap WithPriority(zs, 3)),
         totalCritical |-> Cardinality(WithPriority(zs, 1) \cap NotIdZero(zs)),
         totalModerate |-> Cardinality(WithPriority(zs, 2) \cap NotIdZero(zs)),
         totalLow |-> Cardinality(WithPriority(zs, 3) \cap NotIdZero(zs)),
         avgBatteryUsage |-> toFixed(usage.num, usage.den * Len(ds), 1)]]

(***************************************************************************)
(* Step 4 of optimize: the loop over this.drones.                          *)
(*   AvailableZones   the positions i >= 1 not yet assigned whose demand   *)
(*                    fits the drone's payload, in ascending order         *)
(*   MarkRoute        the loop that marks the route's zones assigned and   *)
(*                    served and adds up totalDelivered                    *)
(*   AssignRoutes     the for loop, drone k onwards                        *)
(***************************************************************************)
\* An available set that forgets what earlier drones were assigned; the
\* route-shape property must tell it from AvailableFrom.
RECURSIVE AvailableFromAny(_, _, _, _)
AvailableFromAny(i, zs, zoneAssigned, drone) ==
    IF ~(i < Len(zs)) THEN <<>>
    ELSE (IF ZoneAt(zs, i).demand <= drone.payloadCapacity THEN <<i>> ELSE <<>>)
         \o AvailableFromAny(i + 1, zs, zoneAssigned, drone)

RECURSIVE AvailableFrom(_, _, _, _)
AvailableFrom(i, zs, zoneAssigned, drone) ==
    IF ~(i < Len(zs)) THEN <<>>
    ELSE (IF ~zoneAssigned[i + 1] /\ ZoneAt(zs, i).demand <= drone.payloadCapacity
          THEN <<i>> ELSE <<>>)
         \o AvailableFrom(i + 1, zs, zoneAssigned, drone)

AvailableZones(zs, zoneAssigned, drone) == AvailableFrom(1, zs, zoneAssigned, drone)

RECURSIVE MarkRoute(_, _, _, _, _)
MarkRoute(route, p, zoneAssigned, zs, totalDelivered) ==
    IF p > Len(route)
    THEN [zoneAssigned |-> zoneAssigned, zones |-> zs,
          totalDelivered |-> totalDelivered]
    ELSE LET zoneIdx == route[p]
         IN IF zoneIdx # 0 /\ ~zoneAssigned[zoneIdx + 1]
            THEN MarkRoute(route, p + 1,
                           [zoneAssigned EXCEPT ![zoneIdx + 1] = TRUE],
                           [zs EXCEPT ![zoneIdx + 1].served = TRUE],
                           totalDelivered + ZoneAt(zs, zoneIdx).demand)
            ELSE MarkRoute(route, p + 1, zoneAssigned, zs, totalDelivered)

AssignDrone(drone, availableZones, D, zs) ==
    LET built == nearestNeighborTSP(availableZones, drone, [D |-> D, zs |-> zs])
        route == IF Len(built) > 1
                 THEN twoOptOptimize(built, drone.batteryCapacity, D)
                 ELSE built
    IN [drone EXCEPT !.route = route,
                     !.totalDistance = calculateRouteDistance(route, D)]

RECURSIVE AssignRoutes(_, _, _, _, _)
AssignRoutes(k, ds, zoneAssigned, zs, D) ==
    IF k > Len(ds) THEN [drones |-> ds, zones |-> zs]
    ELSE
      LET availableZones == AvailableZones(zs, zoneAssigned, ds[k])
      IN IF Len(availableZones) = 0
         THEN AssignRoutes(k + 1, ds, zoneAssigned, zs, D)
         ELSE
           LET drone == AssignDrone(ds[k], availableZones, D, zs)
               marked == MarkRoute(drone.route, 1, zoneAssigned, zs, 0)
           IN AssignRoutes(k + 1,
                  [ds EXCEPT ![k] =
                      [drone EXCEPT !.totalDelivered = marked.totalDelivered]],
                  marked.zoneAssigned, marked.zones, D)

(***************************************************************************)
(* Step 3 of optimize: every served flag cleared, the base's set.          *)
(***************************************************************************)
ResetServed(zs) ==
    [i \in 1..Len(zs) |-> [zs[i] EXCEPT !.served = (i = 1)]]

InitialAssigned(zs) == [i \in 1..Len(zs) |-> i = 1]

(***************************************************************************)
(* The state after construction.  Besides the optimizer's fields:          *)
(*   last    how the most recent call ended: whether it threw, and what    *)
(*           it returned (a result object only from optimize)              *)
(*   before  when the most recent call is optimize(): what the call just   *)
(*           before it returned; no result after any other call            *)
(*   runs    the optimize() calls made since the instance was empty        *)
(***************************************************************************)
Returned(result) == [threw |-> FALSE, result |-> result]

Threw == [threw |-> TRUE, result |-> NoResult]

\* the page's globals as declared: the optimizer is used without the page
NoPage ==
    /\ baseMarker = FALSE
    /\ zoneMarkers = <<>>
    /\ animations = <<>>
    /\ animationActive = FALSE
    /\ delayed = 0

Init ==
    /\ zones = <<>>
    /\ drones = <<>>
    /\ distanceMatrix = <<>>
    /\ baseLocation = Null
    /\ last = Returned(NoResult)
    /\ before = NoResult
    /\ runs = 0
    /\ NoPage

HasUndefined(zs) == \E i \in 1..Len(zs) : IsUndefined(zs[i])

\* this.zones.filter(z => z.id !== 0)
RECURSIVE WithoutIdZero(_)
WithoutIdZero(zs) ==
    IF zs = <<>> THEN <<>>
    ELSE (IF Head(zs).id # 0 THEN <<Head(zs)>> ELSE <<>>) \o WithoutIdZero(Tail(zs))

(***************************************************************************)
(* setBase(lat, lng).  baseLocation is assigned first; the filter callback *)
(* reads z.id, a TypeError when an element is undefined.                   *)
(***************************************************************************)
setBase(lat, lng) ==
    /\ baseLocation' = [lat |-> lat, lng |-> lng, id |-> 0]
    /\ IF HasUndefined(zones)
       THEN /\ zones' = zones
            /\ last' = Threw
       ELSE /\ zones' = <<[id |-> 0, priority |-> 0, demand |-> 0,
                           lat |-> lat, lng |-> lng, served |-> FALSE]>>
                        \o WithoutIdZero(zones)
            /\ last' = Returned(NoResult)
    /\ before' = NoResult
    /\ UNCHANGED <<drones, distanceMatrix, runs>>

(***************************************************************************)
(* addZone(zone): the id is the number of non-base zones plus one.         *)
(***************************************************************************)
addZone(zone) ==
    /\ IF HasUndefined(zones)
       THEN /\ zones' = zones
            /\ last' = Threw
       ELSE /\ zones' = Append(zones,
                   [zone EXCEPT !.id =
                       Len(WithoutIdZero(zones)) + 1])
            /\ last' = Returned(NoResult)
    /\ before' = NoResult
    /\ UNCHANGED <<drones, distanceMatrix, baseLocation, runs>>

(***************************************************************************)
(* addDrone(drone).                                                        *)
(***************************************************************************)
addDrone(drone) ==
    /\ drones' = Append(drones, drone)
    /\ last' = Returned(NoResult)
    /\ before' = NoResult
    /\ UNCHANGED <<zones, distanceMatrix, baseLocation, runs>>

(***************************************************************************)
(* optimize().  With no zone at all sortZonesByPriority leaves [undefined] *)
(* and step 3 throws a TypeError on its first element, after the matrix    *)
(* and the zones were replaced.                                            *)
(***************************************************************************)
optimize ==
    LET matrix == buildDistanceMatrix(zones)
        sorted == sortZonesByPriority(zones)
    IN
    /\ runs < MaxRuns
    /\ runs' = runs + 1
    /\ distanceMatrix' = matrix
    /\ before' = last.result
    /\ UNCHANGED baseLocation
    /\ IF IsUndefined(sorted[1])
       THEN /\ zones' = sorted
            /\ drones' = drones
            /\ last' = Threw
       ELSE LET cleared == ResetServed(sorted)
                done == AssignRoutes(1, drones, InitialAssigned(cleared),
                                     cleared, matrix)
            IN /\ zones' = done.zones
               /\ drones' = done.drones
               /\ last' = Returned(getResults(done.zones, done.drones))

(***************************************************************************)
(* clear().                                                                *)
(***************************************************************************)
clear ==
    /\ zones' = <<>>
    /\ drones' = <<>>
    /\ distanceMatrix' = <<>>
    /\ baseLocation' = Null
    /\ last' = Returned(NoResult)
    /\ before' = NoResult
    /\ runs' = 0

(***************************************************************************)
(* The callers: any sequence of calls, with arguments from the input sets, *)
(* while the collections are within the model's bounds.                    *)
(***************************************************************************)
NonBaseCount(zs) ==
    Cardinality({ i \in 1..Len(zs) : IsUndefined(zs[i]) \/ zs[i].id # 0 })

SetBase ==
    /\ \E lat \in BaseLats : setBase(lat, 0)
    /\ UNCHANGED uiVars

AddZone ==
    /\ NonBaseCount(zones) < MaxZones
    /\ \E a \in ZoneArgs : addZone(Zone(0, a.priority, a.demand, a.lat, 0))
    /\ UNCHANGED uiVars

AddDrone ==
    /\ Len(drones) < MaxDrones
    /\ \E a \in DroneArgs :
          addDrone(Drone(Len(drones) + 1, a.batteryCapacity, a.payloadCapacity))
    /\ UNCHANGED uiVars

Optimize == optimize /\ UNCHANGED uiVars

Clear == clear /\ UNCHANGED uiVars

Next == SetBase \/ AddZone \/ AddDrone \/ Optimize \/ Clear

Spec == Init /\ [][Next]_vars

(***************************************************************************)
(* The same callers passing arguments that were never validated.           *)
(***************************************************************************)
AddZoneUnchecked ==
    /\ NonBaseCount(zones) < MaxZones
    /\ \E a \in UncheckedZoneArgs :
          addZone(Zone(0, a.priority, a.demand, a.lat, 0))
    /\ UNCHANGED uiVars

AddDroneUnchecked ==
    /\ Len(drones) < MaxDrones
    /\ \E a \in UncheckedDroneArgs :
          addDrone(Drone(Len(drones) + 1, a.batteryCapacity, a.payloadCapacity))
    /\ UNCHANGED uiVars

NextUnchecked ==
    SetBase \/ AddZoneUnchecked \/ AddDroneUnchecked \/ Optimize \/ Clear

SpecUnchecked == Init /\ [][NextUnchecked]_vars

(***************************************************************************)
(* Vocabulary of the properties.                                           *)
(***************************************************************************)
OptimizeReturned == last.result # NoResult

DroneIds == 1..Len(drones)

\* the non-base positions a route refers to
RouteZones(route) == { route[p] : p \in 1..Len(route) } \ {baseIdx}

RECURSIVE SumDemand(_, _)
SumDemand(S, zs) ==
    IF S = {} THEN 0
    ELSE LET i == CHOOSE x \in S : TRUE
         IN ZoneAt(zs, i).demand + SumDemand(S \ {i}, zs)

\* base -> route zones in order -> base, by the true distances between the
\* locations of the zones at the route's positions in the given order
TrueRoundTrip(route, zs) == calculateRouteDistance(route, buildDistanceMatrix(zs))

(***************************************************************************)
(* C1  Exclusivity: on return from optimize(), no two distinct drones of   *)
(* the fleet have a non-base zone in common in their routes.               *)
(***************************************************************************)
C1_Exclusivity ==
    OptimizeReturned =>
        \A a, b \in DroneIds :
            a # b => RouteZones(drones[a].route) \cap RouteZones(drones[b].route) = {}

(***************************************************************************)
(* C2  Range: on return from optimize(), the round trip of every drone's   *)
(* route, by the true distances between the zones the route refers to in   *)
(* the returned order, is within the drone's batteryCapacity.              *)
(***************************************************************************)
C2_RangeInvariant ==
    OptimizeReturned =>
        \A k \in DroneIds :
            TrueRoundTrip(drones[k].route, zones) <= drones[k].batteryCapacity

(***************************************************************************)
(* C3  Capacity: on return from optimize(), the demands of the non-base    *)
(* zones every drone's route refers to add up to at most its               *)
(* payloadCapacity.                                                        *)
(***************************************************************************)
C3_CapacityInvariant ==
    OptimizeReturned =>
        \A k \in DroneIds :
            SumDemand(RouteZones(drones[k].route), zones) <= drones[k].payloadCapacity

(***************************************************************************)
(* C4  Repeatability: two optimize() calls in succession on one instance,  *)
(* with no other call in between, return the same routes (zone ids in      *)
(* order), totalDistance and totalDelivered per drone, and the same served *)
(* counts per tier.                                                        *)
(***************************************************************************)
RouteIds(droneResult) ==
    [p \in 1..Len(droneResult.route) |-> droneResult.route[p].id]

SameOutcome(r1, r2) ==
    /\ Len(r1.drones) = Len(r2.drones)
    /\ \A k \in 1..Len(r1.drones) :
          /\ RouteIds(r1.drones[k]) = RouteIds(r2.drones[k])
          /\ r1.drones[k].totalDistance = r2.drones[k].totalDistance
          /\ r1.drones[k].totalDelivered = r2.drones[k].totalDelivered
    /\ r1.summary.zonesServed = r2.summary.zonesServed
    /\ r1.summary.criticalServed = r2.summary.criticalServed
    /\ r1.summary.moderateServed = r2.summary.moderateServed
    /\ r1.summary.lowServed = r2.summary.lowServed

C4_Repeatable ==
    (before # NoResult /\ last.result # NoResult) => SameOutcome(before, last.result)

(***************************************************************************)
(* C7  A drone with nothing available at its turn ends the run with an     *)
(* empty route, totalDistance 0 and totalDelivered 0.  TakenBefore(k) is   *)
(* the set of zones the drones before drone k were given in this run (a    *)
(* drone is given its route only when something was available to it);      *)
(* AvailableAt(k) is what is left for drone k and fits its payload.        *)
(***************************************************************************)
RECURSIVE TakenBefore(_)
TakenBefore(k) ==
    IF k = 1 THEN {}
    ELSE LET taken == TakenBefore(k - 1)
             left == { i \in 1..(Len(zones) - 1) :
                         /\ i \notin taken
                         /\ ZoneAt(zones, i).demand <= drones[k - 1].payloadCapacity }
         IN IF left = {} THEN taken
            ELSE taken \cup RouteZones(drones[k - 1].route)

AvailableAt(k) ==
    { i \in 1..(Len(zones) - 1) :
        /\ i \notin TakenBefore(k)
        /\ ZoneAt(zones, i).demand <= drones[k].payloadCapacity }

C7_NothingAvailableEmptyRoute ==
    OptimizeReturned =>
        \A k \in DroneIds :
            AvailableAt(k) = {} =>
                /\ drones[k].route = <<>>
                /\ drones[k].totalDistance = 0
                /\ drones[k].totalDelivered = 0

(***************************************************************************)
(* C8  optimize() returns no result object when the optimizer holds zero   *)
(* non-base requests (only the base, or nothing at all): it fails.         *)
(* optimize() neither adds nor removes a request, so the requests held on  *)
(* return are those held at the call.                                      *)
(***************************************************************************)
RequestCount(zs) ==
    Cardinality({ i \in 1..Len(zs) : ~IsUndefined(zs[i]) /\ zs[i].id # 0 })

C8_InsufficientInput == OptimizeReturned => RequestCount(zones) > 0

(***************************************************************************)
(* C9  An addZone call with demand <= 0 or a priority outside {1, 2, 3}    *)
(* is rejected with an error and leaves the request collection unchanged.  *)
(***************************************************************************)
ValidZoneArg(a) == a.demand > 0 /\ a.priority \in {1, 2, 3}

C9_InvalidZoneRejected ==
    [][\A a \in UncheckedZoneArgs :
          (~ValidZoneArg(a) /\ addZone(Zone(0, a.priority, a.demand, a.lat, 0)))
              => (last'.threw /\ zones' = zones)]_vars

(***************************************************************************)
(* C10  An addDrone call with batteryCapacity <= 0 or payloadCapacity <= 0 *)
(* is rejected with an error and leaves the fleet unchanged.               *)
(***************************************************************************)
ValidDroneArg(a) == a.batteryCapacity > 0 /\ a.payloadCapacity > 0

C10_InvalidDroneRejected ==
    [][\A a \in UncheckedDroneArgs :
          (~ValidDroneArg(a)
           /\ addDrone(Drone(Len(drones) + 1, a.batteryCapacity, a.payloadCapacity)))
              => (last'.threw /\ drones' = drones)]_vars

(***************************************************************************)
(* A base is held: position 0 of the collection is the entry with id 0.    *)
(***************************************************************************)
HasBase(zs) == zs # <<>> /\ ~IsUndefined(zs[1]) /\ zs[1].id = 0

Requests(zs) == 1..(Len(zs) - 1)

(***************************************************************************)
(* C11  With an empty fleet, a base and at least one request, optimize()   *)
(* returns, every request is unserved, zonesServed is 0 and the summary's  *)
(* avgBatteryUsage is the number 0.                                        *)
(***************************************************************************)
C11_EmptyFleetAllUnserved ==
    (OptimizeReturned /\ HasBase(zones) /\ Len(drones) = 0 /\ Requests(zones) # {}) =>
        /\ \A i \in Requests(zones) : ~ZoneAt(zones, i).served
        /\ last.result.summary.zonesServed = 0
        /\ last.result.summary.avgBatteryUsage = [text |-> "number", scaled |-> 0]

(***************************************************************************)
(* C12  On return from optimize(), a request that no drone of the fleet    *)
(* can admit (its demand exceeds every payloadCapacity, or its direct      *)
(* round trip base -> request -> base by the true distances exceeds every  *)
(* batteryCapacity) is unserved, is in no drone's route, and zonesServed   *)
(* leaves all such requests out of totalZones.                             *)
(***************************************************************************)
TooHeavyForAll(i) ==
    \A k \in DroneIds : ZoneAt(zones, i).demand > drones[k].payloadCapacity

TooFarForAll(i) ==
    \A k \in DroneIds : TrueRoundTrip(<<baseIdx, i>>, zones) > drones[k].batteryCapacity

Unadmittable == { i \in Requests(zones) : TooHeavyForAll(i) \/ TooFarForAll(i) }

C12_UnadmittableStaysUnserved ==
    (OptimizeReturned /\ HasBase(zones)) =>
        /\ \A i \in Unadmittable :
              /\ ~ZoneAt(zones, i).served
              /\ \A k \in DroneIds : i \notin RouteZones(drones[k].route)
        /\ last.result.summary.zonesServed
              <= last.result.summary.totalZones - Cardinality(Unadmittable)

(***************************************************************************)
(* C13  Drones take their turn in registration order: on return from       *)
(* optimize() with a base and a single request, the first drone of the     *)
(* fleet for which the request is feasible on its own has it in its route, *)
(* and no later drone for which it is feasible too has it.                 *)
(***************************************************************************)
FeasibleAlone(i, k) ==
    /\ ZoneAt(zones, i).demand <= drones[k].payloadCapacity
    /\ TrueRoundTrip(<<baseIdx, i>>, zones) <= drones[k].batteryCapacity

FirstFeasible(i, k) ==
    FeasibleAlone(i, k) /\ \A a \in DroneIds : a < k => ~FeasibleAlone(i, a)

C13_FirstRegisteredTakes ==
    (OptimizeReturned /\ HasBase(zones) /\ Len(zones) = 2) =>
        \A k \in DroneIds :
            /\ FirstFeasible(1, k) => 1 \in RouteZones(drones[k].route)
            /\ (FeasibleAlone(1, k) /\ ~FirstFeasible(1, k))
                  => 1 \notin RouteZones(drones[k].route)

(***************************************************************************)
(* C16  Served bookkeeping matches the routes: on return from optimize(),  *)
(* a request has served = true exactly when some drone's route refers to   *)
(* it, and every drone's totalDelivered is the sum of the demands of the   *)
(* requests its route refers to.                                           *)
(***************************************************************************)
C16_ServedMatchesRoutes ==
    (OptimizeReturned /\ HasBase(zones)) =>
        /\ \A i \in Requests(zones) :
              ZoneAt(zones, i).served
                  <=> \E k \in DroneIds : i \in RouteZones(drones[k].route)
        /\ \A k \in DroneIds :
              drones[k].totalDelivered
                  = SumDemand(RouteZones(drones[k].route), zones)

(***************************************************************************)
(* C17  setBase keeps the requests: from any state of the collection, a    *)
(* setBase(lat, lng) call leaves the requests (the entries with an id      *)
(* other than 0) as they were, fields and order, and afterwards the        *)
(* collection holds exactly one entry with id 0, at position 0, with the   *)
(* new coordinates.                                                        *)
(***************************************************************************)
RECURSIVE RequestsOf(_)
RequestsOf(zs) ==
    IF zs = <<>> THEN <<>>
    ELSE (IF ~IsUndefined(Head(zs)) /\ Head(zs).id # 0 THEN <<Head(zs)>> ELSE <<>>)
         \o RequestsOf(Tail(zs))

BaseEntries(zs) == { i \in 1..Len(zs) : ~IsUndefined(zs[i]) /\ zs[i].id = 0 }

C17_SetBaseKeepsRequests ==
    [][\A lat \in BaseLats :
          setBase(lat, 0) =>
              /\ RequestsOf(zones') = RequestsOf(zones)
              /\ BaseEntries(zones') = {1}
              /\ zones'[1].lat = lat /\ zones'[1].lng = 0]_vars

(***************************************************************************)
(* C18  The distance matrix is aligned with the zone order: on return from *)
(* an optimize() that built a route for some drone, and so read the matrix *)
(* against the zones in their sorted order, distanceMatrix[i][j] is the    *)
(* distance between the locations of zones[i] and zones[j].                *)
(***************************************************************************)
C18_MatrixAligned ==
    (OptimizeReturned /\ \E k \in DroneIds : AvailableAt(k) # {}) =>
        distanceMatrix = buildDistanceMatrix(zones)

(***************************************************************************)
(* Route construction on its own.  The initial states are the states       *)
(* optimize() is in when step 4 reaches its first drone: the base and up   *)
(* to MaxConstructZones requests were inserted in some order, the matrix   *)
(* was built over that order, the zones were sorted and their served flags *)
(* reset, and one drone awaits its route.  Construct is the call of        *)
(* nearestNeighborTSP for that drone; it leaves the route in drone.route.  *)
(***************************************************************************)
MaxConstructZones == 3

Inserted(b, args) ==
    <<[id |-> 0, priority |-> 0, demand |-> 0, lat |-> b, lng |-> 0,
       served |-> FALSE]>>
    \o [i \in 1..Len(args) |->
          [Zone(0, args[i].priority, args[i].demand, args[i].lat, 0)
              EXCEPT !.id = i]]

InitConstruct ==
    /\ \E n \in 1..MaxConstructZones :
         \E args \in [1..n -> ZoneArgs] :
           \E b \in BaseLats :
              /\ zones = ResetServed(sortZonesByPriority(Inserted(b, args)))
              /\ distanceMatrix = buildDistanceMatrix(Inserted(b, args))
              /\ baseLocation = [lat |-> b, lng |-> 0, id |-> 0]
    /\ \E a \in DroneArgs :
          drones = <<Drone(1, a.batteryCapacity, a.payloadCapacity)>>
    /\ last = Returned(NoResult)
    /\ before = NoResult
    /\ runs = 0
    /\ NoPage

Construct ==
    /\ runs = 0
    /\ runs' = 1
    /\ drones' =
         [drones EXCEPT ![1].route =
             nearestNeighborTSP(
                 AvailableZones(zones, InitialAssigned(zones), drones[1]),
                 drones[1], [D |-> distanceMatrix, zs |-> zones])]
    /\ UNCHANGED <<zones, distanceMatrix, baseLocation, last, before>>
    /\ UNCHANGED uiVars

NextConstruct == Construct

SpecConstruct == InitConstruct /\ [][NextConstruct]_vars

Constructed == runs = 1

(***************************************************************************)
(* The quantities nearestNeighborTSP holds when it chooses the entry at    *)
(* position p (1-based, p >= 2) of the route it returned.                  *)
(***************************************************************************)
DistanceSoFar(route, p) == LegSum(SubSeq(route, 1, p - 1), 1, distanceMatrix)

LoadSoFar(route, p) == SumDemand(RouteZones(SubSeq(route, 1, p - 1)), zones)

VisitedSoFar(route, p) == { route[q] : q \in 1..(p - 1) }

FeasibleAt(route, p, drone, c) ==
    /\ DistanceSoFar(route, p) + Dist(distanceMatrix, route[p - 1], c)
           + Dist(distanceMatrix, c, baseIdx) <= drone.batteryCapacity
    /\ LoadSoFar(route, p) + ZoneAt(zones, c).demand <= drone.payloadCapacity

(***************************************************************************)
(* C6  Priority weighting favours urgent requests: nearestNeighborTSP      *)
(* never selects a zone while an unvisited available zone of a more urgent *)
(* tier (smaller priority number) is feasible too and lies at the same raw *)
(* distance from the current position.                                     *)
(***************************************************************************)
C6_UrgentFirstAtEqualDistance ==
    Constructed =>
        LET drone == drones[1]
            route == drone.route
        IN \A p \in 2..Len(route) :
             \A c \in 1..(Len(zones) - 1) :
                ~ /\ c \notin VisitedSoFar(route, p)
                  /\ ZoneAt(zones, c).demand <= drone.payloadCapacity
                  /\ FeasibleAt(route, p, drone, c)
                  /\ FeasibleAt(route, p, drone, route[p])
                  /\ Dist(distanceMatrix, route[p - 1], c)
                       = Dist(distanceMatrix, route[p - 1], route[p])
                  /\ ZoneAt(zones, c).priority < ZoneAt(zones, route[p]).priority

(***************************************************************************)
(* C19  Selection rule of nearestNeighborTSP, for zones of priority 1..3:  *)
(* the route starts at the base; the entry at every later position is an   *)
(* unvisited available zone that keeps the load within payloadCapacity and *)
(* distance so far + leg + return within batteryCapacity, and among all    *)
(* such zones it has the least leg / priority, the smallest position among *)
(* those of equal leg / priority; behind the last entry no unvisited       *)
(* available zone satisfies both limits.  Distances are the matrix's.      *)
(***************************************************************************)
Candidates(route, p, drone) ==
    { c \in Requests(zones) :
        /\ c \notin VisitedSoFar(route, p)
        /\ ZoneAt(zones, c).demand <= drone.payloadCapacity
        /\ FeasibleAt(route, p, drone, c) }

\* leg / priority of candidate c at position p, against that of candidate e,
\* both sides multiplied by the two priorities
Weighted(route, p, c, e) ==
    Dist(distanceMatrix, route[p - 1], c) * ZoneAt(zones, e).priority

Preferred(route, p, c, e) ==
    \/ Weighted(route, p, c, e) < Weighted(route, p, e, c)
    \/ Weighted(route, p, c, e) = Weighted(route, p, e, c) /\ c <= e

C19_SelectionRule ==
    Constructed =>
        LET drone == drones[1]
            route == drone.route
        IN /\ Len(route) >= 1 /\ route[1] = baseIdx
           /\ \A p \in 2..Len(route) :
                 /\ route[p] \in Candidates(route, p, drone)
                 /\ \A c \in Candidates(route, p, drone) :
                       Preferred(route, p, route[p], c)
           /\ Candidates(route, Len(route) + 1, drone) = {}

\* two choices were made, one of them between candidates of equal
\* leg / priority, and the construction stopped short of a third zone
C19_Witness ==
    /\ Constructed
    /\ Len(zones) = 4
    /\ Len(drones[1].route) = 3
    /\ \E p \in 2..3 :
         \E c \in Candidates(drones[1].route, p, drones[1]) :
            /\ c # drones[1].route[p]
            /\ Weighted(drones[1].route, p, c, drones[1].route[p])
                  = Weighted(drones[1].route, p, drones[1].route[p], c)

(***************************************************************************)
(* Whole runs on larger inputs.  The initial states are the states after   *)
(* setBase(0, 0), up to MaxConstructZones addZone calls and up to          *)
(* MaxDrones addDrone calls on a new instance, with requests up to         *)
(* MaxLat + 1 steps from the base and ranges long enough for a detour that *)
(* 2-opt can remove; the only call is the first optimize().                *)
(***************************************************************************)
RunLats == 1..(MaxLat + 1)
RunBatteries == {4, 8}

RunZoneArgs == [priority : Priorities, demand : Demands, lat : RunLats]
RunDroneArgs == [batteryCapacity : RunBatteries, payloadCapacity : Payloads]

Fleet(args) ==
    [k \in 1..Len(args) |->
        Drone(k, args[k].batteryCapacity, args[k].payloadCapacity)]

InitRun ==
    /\ \E n \in 1..MaxConstructZones :
         \E args \in [1..n -> RunZoneArgs] : zones = Inserted(0, args)
    /\ \E m \in 1..MaxDrones :
         \E args \in [1..m -> RunDroneArgs] : drones = Fleet(args)
    /\ baseLocation = [lat |-> 0, lng |-> 0, id |-> 0]
    /\ distanceMatrix = <<>>
    /\ last = Returned(NoResult)
    /\ before = NoResult
    /\ runs = 0
    /\ NoPage

RunOnce == runs = 0 /\ optimize /\ UNCHANGED uiVars

NextRun == RunOnce

SpecRun == InitRun /\ [][NextRun]_vars

(***************************************************************************)
(* C14  Completeness when the constraints are slack: with a base and a     *)
(* single drone whose payloadCapacity is at least the total demand and     *)
(* whose batteryCapacity is at least the true round trip through all the   *)
(* requests in every order, optimize() serves every request: zonesServed = *)
(* totalZones, and served = total in each priority tier.                   *)
(***************************************************************************)
Orders(S) ==
    { s \in [1..Cardinality(S) -> S] :
        \A a, b \in 1..Cardinality(S) : a # b => s[a] # s[b] }

Slack ==
    /\ Len(drones) = 1
    /\ SumDemand(Requests(zones), zones) <= drones[1].payloadCapacity
    /\ \A s \in Orders(Requests(zones)) :
          TrueRoundTrip(<<baseIdx>> \o s, zones) <= drones[1].batteryCapacity

AllServed(summary) ==
    /\ summary.zonesServed = summary.totalZones
    /\ summary.criticalServed = summary.totalCritical
    /\ summary.moderateServed = summary.totalModerate
    /\ summary.lowServed = summary.totalLow

C14_SlackServesAll ==
    (OptimizeReturned /\ HasBase(zones) /\ Slack) =>
        /\ \A i \in Requests(zones) : ZoneAt(zones, i).served
        /\ AllServed(last.result.summary)

\* three requests of more than one tier, all within a single drone's reach
C14_Witness ==
    /\ OptimizeReturned /\ HasBase(zones) /\ Slack
    /\ Len(zones) = 4
    /\ last.result.summary.totalCritical > 0
    /\ last.result.summary.totalLow > 0
    /\ last.result.summary.zonesServed = 3

(***************************************************************************)
(* C20  Route shape: on return from optimize() with a base, the route of   *)
(* every drone that was given one in the run (something was available at   *)
(* its turn) starts with position 0, holds no position twice (so the base  *)
(* once), and every later entry is in the drone's available set; the base  *)
(* is not counted as served, in total or in a tier, and the drone's        *)
(* totalDelivered is the demand of the route's requests.                   *)
(***************************************************************************)
GivenRoute(k) == AvailableAt(k) # {}

ServedRequests == { i \in Requests(zones) : ZoneAt(zones, i).served }

C20_RouteShape ==
    (OptimizeReturned /\ HasBase(zones)) =>
        /\ \A k \in DroneIds :
              GivenRoute(k) =>
                 LET route == drones[k].route
                 IN /\ Len(route) >= 1 /\ route[1] = baseIdx
                    /\ \A p, q \in 1..Len(route) : p # q => route[p] # route[q]
                    /\ \A p \in 2..Len(route) : route[p] \in AvailableAt(k)
                    /\ drones[k].totalDelivered
                          = SumDemand(RouteZones(route), zones)
        /\ last.result.summary.zonesServed = Cardinality(ServedRequests)
        /\ last.result.summary.criticalServed + last.result.summary.moderateServed
              + last.result.summary.lowServed = Cardinality(ServedRequests)

\* the first of two drones was given a route through three requests, and it
\* is not the route nearestNeighborTSP built: 2-opt reordered it
C20_Witness ==
    /\ OptimizeReturned /\ HasBase(zones)
    /\ Len(drones) = 2 /\ GivenRoute(1)
    /\ Len(drones[1].route) = 4
    /\ drones[1].route #
          nearestNeighborTSP(AvailableZones(zones, InitialAssigned(zones), drones[1]),
                             drones[1], [D |-> distanceMatrix, zs |-> zones])

(***************************************************************************)
(* Route improvement on its own.  The initial states hold an input of      *)
(* twoOptOptimize: a symmetric matrix with a zero diagonal over the base   *)
(* and MaxTwoOptZones zones, with legs of 0..MaxLeg, a route of up to      *)
(* MaxRouteLen entries that starts at the base, and the drone's range as   *)
(* maxDistance.  Improve is the call; the route it returns is left in      *)
(* last, the input stays in drone.route (the function copies the route     *)
(* before it reverses a segment).                                          *)
(***************************************************************************)
MaxTwoOptZones == 3
MaxLeg == 2
MaxRouteLen == 5

Ranges == {4, 10}

Symmetric(upper, n) ==
    [i \in 1..n |->
        [j \in 1..n |->
            IF i = j THEN 0
            ELSE IF i < j THEN upper[<<i, j>>] ELSE upper[<<j, i>>]]]

UpperPairs(n) == { pr \in (1..n) \X (1..n) : pr[1] < pr[2] }

InitTwoOpt ==
    /\ \E upper \in [UpperPairs(MaxTwoOptZones + 1) -> 0..MaxLeg] :
          distanceMatrix = Symmetric(upper, MaxTwoOptZones + 1)
    /\ \E len \in 0..(MaxRouteLen - 1) :
         \E rest \in [1..len -> 1..MaxTwoOptZones] :
           \E range \in Ranges :
              drones = <<[Drone(1, range, 1) EXCEPT !.route = <<baseIdx>> \o rest]>>
    /\ zones = <<>>
    /\ baseLocation = Null
    /\ last = Returned(NoResult)
    /\ before = NoResult
    /\ runs = 0
    /\ NoPage

Improve ==
    /\ runs = 0
    /\ runs' = 1
    /\ last' = Returned([route |->
                   twoOptOptimize(drones[1].route, drones[1].batteryCapacity,
                                  distanceMatrix)])
    /\ UNCHANGED <<zones, drones, distanceMatrix, baseLocation, before>>
    /\ UNCHANGED uiVars

NextTwoOpt == Improve

SpecTwoOpt == InitTwoOpt /\ [][NextTwoOpt]_vars

Improved == runs = 1

(***************************************************************************)
(* C15  Improvement monotonicity of twoOptOptimize: the round trip         *)
(* (calculateRouteDistance) of the route it returns is at most that of its *)
(* input, and every reversal its test accepts strictly lowers the round    *)
(* trip.  The second part is stated of every pair (i, j) the scan can      *)
(* reach on the input route; the inputs are closed under reordering the    *)
(* entries behind the base, so every route the scan passes through is the  *)
(* input route of some state.                                              *)
(***************************************************************************)
ScanPairs(route) ==
    { pr \in (1..(Len(route) - 3)) \X (2..(Len(route) - 2)) : pr[1] < pr[2] }

C15_TwoOptNeverLonger ==
    LET route == drones[1].route
        D == distanceMatrix
    IN /\ Improved =>
            calculateRouteDistance(last.result.route, D)
                <= calculateRouteDistance(route, D)
       /\ \A pr \in ScanPairs(route) :
            TwoOptAccepts(route, pr[1], pr[2], drones[1].batteryCapacity, D) =>
                calculateRouteDistance(reverseSegment(route, pr[1], pr[2]), D)
                    < calculateRouteDistance(route, D)

\* a route of full length that the search changed and made shorter
C15_Witness ==
    /\ Improved
    /\ Len(drones[1].route) = MaxRouteLen
    /\ last.result.route # drones[1].route
    /\ calculateRouteDistance(last.result.route, distanceMatrix)
          < calculateRouteDistance(drones[1].route, distanceMatrix)

(***************************************************************************)
(* C21  twoOptOptimize only reorders the interior: the route it returns    *)
(* has the length of its input and holds every position as often as the    *)
(* input does, its first and its last entry are those of the input, and an *)
(* input of fewer than 4 entries is returned as it is.                     *)
(***************************************************************************)
Occurrences(route, idx) == Cardinality({ p \in 1..Len(route) : route[p] = idx })

C21_TwoOptReordersInterior ==
    Improved =>
        LET input == drones[1].route
            output == last.result.route
        IN /\ Len(output) = Len(input)
           /\ \A idx \in 0..MaxTwoOptZones :
                 Occurrences(output, idx) = Occurrences(input, idx)
           /\ output[1] = input[1]
           /\ output[Len(output)] = input[Len(input)]
           /\ Len(input) < 4 => output = input

\* a route of full length whose interior the search reordered
C21_Witness ==
    /\ Improved
    /\ Len(drones[1].route) = MaxRouteLen
    /\ last.result.route # drones[1].route
    /\ \E p \in 2..(MaxRouteLen - 1) : last.result.route[p] # drones[1].route[p]

(***************************************************************************)
(* The page (src/unnamed/part_001) around one optimizer instance.          *)
(*   baseMarker       whether the base marker exists (null otherwise)      *)
(*   zoneMarkers      one entry per zone marker, in the order the zones    *)
(*                    were added: the id its zone object got from          *)
(*                    optimizer.addZone and the marker's opacity in tenths *)
(*   animations       the animation callbacks not yet completed, in the    *)
(*                    order visualizeAndAnimateRoutes created them: the    *)
(*                    marker's isAnimating, whether the marker still is in *)
(*                    the droneMarkers array, and the positions the        *)
(*                    results captured by the callback mark as served      *)
(*   animationActive  the animation lock                                   *)
(*   delayed          the optimizeRoutes invocations suspended in their    *)
(*                    500 ms delay; after the delay an invocation reads    *)
(*                    globals only, so a count stands for them             *)
(* A click that a guard rejects changes nothing and is no step.  The order *)
(* in which timers and animation frames of different drones fire is left   *)
(* open.                                                                   *)
(***************************************************************************)
MaxDelayed == 2
MaxPending == 0

\* item.marker.setOpacity(1) and setOpacity(0.4), in tenths
Opaque == 10
Dimmed == 4

\* the values of the priority, demand and fleet inputs the page is driven with
UiZoneArgs == [priority : {1, 2}, demand : {1}, lat : ZoneLats]
UiDroneArgs == [batteryCapacity : Batteries, payloadCapacity : {1}]

\* zoneMarkers.push({ marker, zone }): a new marker is fully opaque
ZoneMarker(id) == [zone |-> id, opacity |-> Opaque]

\* the entries of the droneMarkers array among the callbacks' markers
droneMarkers == { i \in DOMAIN animations : animations[i].inArray }

\* clearDroneMarkers(): the array is replaced; timers and callbacks stay
clearDroneMarkers(as) == [i \in DOMAIN as |-> [as[i] EXCEPT !.inArray = FALSE]]

\* clearZones(), the optimizer's side: only zones[0] is kept
clearZones(zs) == IF Len(zs) > 0 THEN <<zs[1]>> ELSE zs

\* updateZoneMarkers(results): the set servedZones
servedZones(results) ==
    UNION { { results.drones[k].routeIndices[p] - 1 :
                p \in { q \in DOMAIN results.drones[k].routeIndices :
                          results.drones[k].routeIndices[q] # 0 } } :
            k \in DOMAIN results.drones }

\* updateZoneMarkers(results): the marker at array index idx is styled by
\* servedZones.has(idx)
updateZoneMarkers(markers, served) ==
    [i \in DOMAIN markers |->
        [markers[i] EXCEPT !.opacity = IF (i - 1) \in served THEN Opaque ELSE Dimmed]]

\* displayResults(results) reads zone.id of every route entry
DisplayThrows(results) ==
    \E k \in DOMAIN results.drones :
        \E p \in DOMAIN results.drones[k].route :
            IsUndefined(results.drones[k].route[p])

\* visualizeAndAnimateRoutes(results): a marker and a timer for every drone
\* whose route has at least 2 entries, from drone k on
RECURSIVE Scheduled(_, _)
Scheduled(results, k) ==
    IF k > Len(results.drones) THEN <<>>
    ELSE (IF Len(results.drones[k].route) < 2 THEN <<>>
          ELSE <<[isAnimating |-> FALSE, inArray |-> TRUE,
                  served |-> servedZones(results)]>>)
         \o Scheduled(results, k + 1)

(***************************************************************************)
(* changeLocation(key): clearAll() and then setBaseLocation(lat, lng).     *)
(***************************************************************************)
ChangeLocation ==
    \E lat \in BaseLats :
        /\ zones' = <<[id |-> 0, priority |-> 0, demand |-> 0,
                       lat |-> lat, lng |-> 0, served |-> FALSE]>>
        /\ drones' = <<>>
        /\ distanceMatrix' = <<>>
        /\ baseLocation' = [lat |-> lat, lng |-> 0, id |-> 0]
        /\ last' = Returned(NoResult)
        /\ before' = NoResult
        /\ runs' = 0
        /\ baseMarker' = TRUE
        /\ zoneMarkers' = <<>>
        /\ animations' = clearDroneMarkers(animations)
        /\ animationActive' = FALSE
        /\ UNCHANGED delayed

(***************************************************************************)
(* clearAll(), the clear button.                                           *)
(***************************************************************************)
ClearClick ==
    /\ clear
    /\ baseMarker' = FALSE
    /\ zoneMarkers' = <<>>
    /\ animations' = clearDroneMarkers(animations)
    /\ animationActive' = FALSE
    /\ UNCHANGED delayed

(***************************************************************************)
(* onMapClick(e): addZone(lat, lng, priority, demand) of the page; when    *)
(* optimizer.addZone throws no marker is pushed.                           *)
(***************************************************************************)
MapClick ==
    /\ NonBaseCount(zones) < MaxZones
    /\ \E a \in UiZoneArgs : addZone(Zone(0, a.priority, a.demand, a.lat, 0))
    /\ zoneMarkers' =
          IF HasUndefined(zones) THEN zoneMarkers
          ELSE Append(zoneMarkers, ZoneMarker(Len(WithoutIdZero(zones)) + 1))
    /\ UNCHANGED <<baseMarker, animations, animationActive, delayed>>

(***************************************************************************)
(* generateRandomZones(): clearZones() and numZones calls of addZone with  *)
(* random priority, demand and position.                                   *)
(***************************************************************************)
GenerateZones ==
    /\ baseMarker
    /\ \E n \in 1..MaxZones :
         \E args \in [1..n -> UiZoneArgs] :
            LET kept == clearZones(zones)
                first == Len(WithoutIdZero(kept))
            IN IF HasUndefined(kept)
               THEN /\ zones' = kept
                    /\ zoneMarkers' = <<>>
                    /\ last' = Threw
               ELSE /\ zones' = kept \o
                         [i \in 1..n |->
                            [Zone(0, args[i].priority, args[i].demand,
                                  args[i].lat, 0) EXCEPT !.id = first + i]]
                    /\ zoneMarkers' = [i \in 1..n |-> ZoneMarker(first + i)]
                    /\ last' = Returned(NoResult)
    /\ before' = NoResult
    /\ UNCHANGED <<drones, distanceMatrix, baseLocation, runs>>
    /\ UNCHANGED <<baseMarker, animations, animationActive, delayed>>

(***************************************************************************)
(* optimizeRoutes() up to its await: the three guards, clearDroneMarkers() *)
(* and the replacement of optimizer.drones by a fleet of equal drones.     *)
(***************************************************************************)
OptimizeClick ==
    /\ baseMarker
    /\ Len(zones) > 1
    /\ ~animationActive
    /\ delayed < MaxDelayed
    /\ Len(animations) <= MaxPending
    /\ \E n \in 1..MaxDrones :
         \E a \in UiDroneArgs :
            drones' = [i \in 1..n |->
                          Drone(i, a.batteryCapacity, a.payloadCapacity)]
    /\ last' = Returned(NoResult)
    /\ before' = NoResult
    /\ animations' = clearDroneMarkers(animations)
    /\ delayed' = delayed + 1
    /\ UNCHANGED <<zones, distanceMatrix, baseLocation, runs>>
    /\ UNCHANGED <<baseMarker, zoneMarkers, animationActive>>

(***************************************************************************)
(* optimizeRoutes() after its await: optimizer.optimize() inside the try.  *)
(* A throw of optimize() or of displayResults() is caught before the lock  *)
(* is taken; visualizeAndAnimateRoutes() runs with the lock taken and      *)
(* throws on optimizer.baseLocation.lat at the first drone to animate when *)
(* the base location is null.                                              *)
(***************************************************************************)
Resume ==
    /\ delayed > 0
    /\ optimize
    /\ delayed' = delayed - 1
    /\ IF last'.threw \/ DisplayThrows(last'.result)
       THEN UNCHANGED <<animations, animationActive>>
       ELSE /\ animationActive' = TRUE
            /\ animations' =
                  IF baseLocation = Null THEN animations
                  ELSE animations \o Scheduled(last'.result, 1)
    /\ UNCHANGED <<baseMarker, zoneMarkers>>

(***************************************************************************)
(* The timer of animation i fires: animateDrone() sets isAnimating.        *)
(***************************************************************************)
StartAnimation(i) ==
    /\ ~animations[i].isAnimating
    /\ animations' = [animations EXCEPT ![i].isAnimating = TRUE]
    /\ UNCHANGED <<zones, drones, distanceMatrix, baseLocation, last, before, runs>>
    /\ UNCHANGED <<baseMarker, zoneMarkers, animationActive, delayed>>

\* droneMarkers.every(m => !m.isAnimating), evaluated when animation i ends
AllComplete(i) ==
    \A j \in droneMarkers : j # i => ~animations[j].isAnimating

WithoutAnimation(as, i) == SubSeq(as, 1, i - 1) \o SubSeq(as, i + 1, Len(as))

(***************************************************************************)
(* The last frame of animation i: isAnimating is reset and onComplete      *)
(* releases the lock and restyles the zone markers when no marker in the   *)
(* array is animating.                                                     *)
(***************************************************************************)
CompleteAnimation(i) ==
    /\ animations[i].isAnimating
    /\ animations' = WithoutAnimation(animations, i)
    /\ IF AllComplete(i)
       THEN /\ animationActive' = FALSE
            /\ zoneMarkers' = updateZoneMarkers(zoneMarkers, animations[i].served)
       ELSE UNCHANGED <<animationActive, zoneMarkers>>
    /\ UNCHANGED <<zones, drones, distanceMatrix, baseLocation, last, before, runs>>
    /\ UNCHANGED <<baseMarker, delayed>>

Animate ==
    \E i \in DOMAIN animations : StartAnimation(i) \/ CompleteAnimation(i)

(***************************************************************************)
(* The page after DOMContentLoaded: changeLocation('pakistan') has run on  *)
(* the fresh optimizer.                                                    *)
(***************************************************************************)
InitUi ==
    /\ zones = <<[id |-> 0, priority |-> 0, demand |-> 0,
                  lat |-> 0, lng |-> 0, served |-> FALSE]>>
    /\ drones = <<>>
    /\ distanceMatrix = <<>>
    /\ baseLocation = [lat |-> 0, lng |-> 0, id |-> 0]
    /\ last = Returned(NoResult)
    /\ before = NoResult
    /\ runs = 0
    /\ baseMarker = TRUE
    /\ zoneMarkers = <<>>
    /\ animations = <<>>
    /\ animationActive = FALSE
    /\ delayed = 0

NextUi ==
    \/ ChangeLocation
    \/ ClearClick
    \/ MapClick
    \/ GenerateZones
    \/ OptimizeClick
    \/ Resume
    \/ Animate

SpecUi == InitUi /\ [][NextUi]_vars

(***************************************************************************)
(* C22: the page never runs the optimizer on insufficient input: whatever  *)
(* the user does during the 500 ms delay of optimizeRoutes, the invocation *)
(* calls optimizer.optimize() only while the optimizer holds a base and at *)
(* least one request.                                                      *)
(***************************************************************************)
C22_OptimizeOnlyOnSufficientInput ==
    [][Resume => (HasBase(zones) /\ Requests(zones) # {})]_vars

\* a lower bound on the optimizeRoutes invocations that passed their guards
\* and whose animation has not completed: those suspended in the delay, and
\* one more while any animation callback is outstanding
InFlight == delayed + (IF animations # <<>> THEN 1 ELSE 0)

(***************************************************************************)
(* C23: the page serializes optimization runs: an optimize click passes    *)
(* the guards, replaces optimizer.drones and goes on to call optimize()    *)
(* only when no earlier invocation is waiting in its 500 ms delay or       *)
(* animating.                                                              *)
(***************************************************************************)
C23_RunsSerialized == [][OptimizeClick => InFlight = 0]_vars

\* the lock is held and nothing is left that could release it: no invocation
\* is suspended and no animation callback is outstanding, so only clearAll()
\* assigns animationActive again
LockStuck == animationActive /\ delayed = 0 /\ animations = <<>>

(***************************************************************************)
(* C24: the animation lock is always released: once optimizeRoutes has set *)
(* animationActive after a successful optimize(), the lock is released     *)
(* again without the clear button, whatever the result, also when no drone *)
(* of the result has a route with a zone.  Stated on finite runs: the page *)
(* never holds the lock in a state where nothing but clearAll() can reset  *)
(* it.                                                                     *)
(***************************************************************************)
C24_LockReleased == ~LockStuck

(***************************************************************************)
(* In such a state every step leaves the lock held, except the clear       *)
(* button and the location change.                                         *)
(***************************************************************************)
StuckStaysStuck ==
    [][(LockStuck /\ ~ClearClick /\ ~ChangeLocation) => LockStuck']_vars

\* the zone object a marker was created for
MarkedZone(m) == CHOOSE i \in 1..Len(zones) : zones[i].id = m.zone

\* every marker is fully opaque when its zone is served and dimmed otherwise
StyledByServed ==
    \A k \in DOMAIN zoneMarkers :
        zoneMarkers[k].opacity =
            IF zones[MarkedZone(zoneMarkers[k])].served THEN Opaque ELSE Dimmed

\* a run has ended undisturbed: its animation callback restyles the markers
\* from the results of the most recent optimize(), no other invocation is in
\* flight, and the optimizer was not called since optimize() returned (so
\* every marker's zone is in the zones)
RunEnds(i) ==
    /\ CompleteAnimation(i)
    /\ AllComplete(i)
    /\ Len(animations) = 1
    /\ delayed = 0
    /\ HasBase(zones)
    /\ OptimizeReturned
    /\ animations[i].served = servedZones(last.result)

(***************************************************************************)
(* C25: served styling matches served state: when a run ends,              *)
(* updateZoneMarkers leaves exactly the markers of the zones with          *)
(* served = true fully opaque and exactly the markers of the zones with    *)
(* served = false dimmed, in whatever order the zones were added.          *)
(***************************************************************************)
C25_StylingMatchesServed ==
    [][\A i \in DOMAIN animations : RunEnds(i) => StyledByServed']_vars

====
